---- MODULE Spec2Model ----
(***************************************************************************)
(* A model of the code execution core of the online judge (src/main.py):   *)
(* execute_code, the LANGUAGE_CONFIG table it is driven by, and the loop   *)
(* of the two submission routes that calls it once per test case.          *)
(*                                                                         *)
(* Time is counted in half seconds (2.0 s = 4, 2.5 s = 5).  The host is a  *)
(* POSIX host (the commands are python3, javac, g++, node; the source file *)
(* is chmod'ed 0o644), so subprocess.Popen(list, shell=True) runs          *)
(* /bin/sh -c list[0] with the other items as the shell's own arguments.   *)
(* A submitted Java program declares the class `source`.                   *)
(***************************************************************************)
EXTENDS Integers, Sequences, FiniteSets, TLC

\* ------------------------------------------------------------------ bounds
\* the invocations of execute_code: concurrent request threads, or the
\* successive calls of one submission
NumCalls == 2
\* the names tempfile.mkdtemp can draw from
MaxDirs == 2
\* the longest run of a terminating submitted program, in half seconds
MaxDur == 9
\* the registered users, the request threads of the olympiad route, the
\* requests served in one behaviour of the stored collections, and the last
\* instant of the clock
NumUsers == 2
NumThreads == 2
MaxRequests == 6
MaxTime == 3

Calls == 1..NumCalls
DirNames == 1..MaxDirs
UserIds == 1..NumUsers
Threads == 1..NumThreads
Times == 1..MaxTime

\* ------------------------------------------------------------------ inputs
\* language identifiers a caller may pass
LanguageIds == {"python", "Java", "cpp", "javascript", "brainfuck"}

\* str.lower() on the identifiers above
Lower(language) == IF language = "Java" THEN "java" ELSE language

\* stdin payloads: "", "h\n", " h"
Texts == {<< >>, <<"h", "\n">>, <<" ", "h">>}

\* input_data as it comes from a stored test case: a str, or a value that is
\* no str (create_problem checks only that the key 'input' is there)
InputData == [is_str : {TRUE}, text : Texts] \cup [is_str : {FALSE}, text : {<< >>}]

\* run times of the sample programs: below every limit, between the caller's
\* short limit and the profile limits, above every profile limit
Durations == {1, 3, MaxDur}

\* the time_limit argument: 1 s and 5 s
TimeLimits == {2, 10}

\* A submitted source text, described by what it does: what the compiler
\* makes of it (compiled languages), and what the program does when run:
\* it copies its standard input to its standard output, then either exits
\* with `exit` after `dur`, or never terminates.
Codes == [compile : {"ok", "error", "hang"}, exit : {0, 1}, halts : BOOLEAN, dur : Durations]

\* ------------------------------------------------------------------ text
IsSpace(ch) == ch \in {" ", "\n"}

RECURSIVE LStrip(_)
LStrip(s) == IF s # << >> /\ IsSpace(Head(s)) THEN LStrip(Tail(s)) ELSE s

RECURSIVE RStrip(_)
RStrip(s) ==
    IF s # << >> /\ IsSpace(s[Len(s)]) THEN RStrip(SubSeq(s, 1, Len(s) - 1)) ELSE s

\* str.strip()
Strip(s) == RStrip(LStrip(s))

\* ------------------------------------------------------------------ LANGUAGE_CONFIG
\* os.path.join(temp_dir, "source" + extension)
Path(dir, base, ext) == [dir |-> dir, base |-> base, ext |-> ext]

\* a command word looked up on PATH ('python3', 'javac', '-cp', '<')
Word(w) == [dir |-> 0, base |-> w, ext |-> ""]

\* filename.replace('.cpp', '') and os.path.basename(..).replace('.java', '')
DropExt(filename) == [filename EXCEPT !.ext = ""]

LANGUAGE_CONFIG ==
    [l \in {"python", "java", "cpp", "javascript"} |->
        CASE l = "python"     -> [extension |-> ".py",   compile |-> FALSE, time_limit |-> 4]
          [] l = "java"       -> [extension |-> ".java", compile |-> TRUE,  time_limit |-> 8]
          [] l = "cpp"        -> [extension |-> ".cpp",  compile |-> TRUE,  time_limit |-> 6]
          [] l = "javascript" -> [extension |-> ".js",   compile |-> FALSE, time_limit |-> 5]]

\* a lookup that finds a profile for every identifier
SupportsAnything(language) == TRUE

Supported(language) == Lower(language) \in DOMAIN LANGUAGE_CONFIG

\* lang_config['compile'](filename): the argv of the compiler
CompileCommand(lang, filename) ==
    CASE lang = "java" -> <<Word("javac"), filename>>
      [] lang = "cpp"  -> <<Word("g++"), filename, Word("-o"), DropExt(filename)>>

\* lang_config['run'](filename): the argv of the run step
ProfileRun(lang, filename) ==
    CASE lang = "python"     -> <<Word("python3"), filename>>
      [] lang = "java"       -> <<Word("java"), Word("-cp"), Path(filename.dir, "", ""),
                                  Word(DropExt(filename).base)>>
      [] lang = "cpp"        -> <<DropExt(filename)>>
      [] lang = "javascript" -> <<Word("node"), filename>>

\* ------------------------------------------------------------------ the host
\* What the compiler started with `argv` leaves in the workspace on exit 0:
\* javac writes the class file of the declared class beside the source, g++
\* the binary named after -o.
Artifact(argv) ==
    CASE argv[1] = Word("javac") -> Path(argv[2].dir, "source", ".class")
      [] argv[1] = Word("g++")   -> argv[4]

\* subprocess.Popen(args, shell=...) on POSIX: with shell=True and a list,
\* the command is args[0] alone; the other items are arguments of /bin/sh.
Argv(args, shell) == IF shell THEN <<args[1]>> ELSE args

\* node started without a script reads the script from its standard input;
\* on a closed, empty standard input that is the empty script.
EmptyScript == [exit |-> 0, halts |-> TRUE, dur |-> 1, echo |-> FALSE]

\* the interpreter or loader cannot find what it is asked to run
NotFound == [exit |-> 1, halts |-> TRUE, dur |-> 1, echo |-> FALSE]

Submitted(code) == [exit |-> code.exit, halts |-> code.halts, dur |-> code.dur, echo |-> TRUE]

\* What the process started with `argv` executes, given the files of the
\* workspace and the submitted code they were written or compiled from.
Exec(argv, files, code) ==
    LET prog == argv[1] IN
    CASE prog \in {Word("python3"), Word("node")} ->
            IF Len(argv) = 1 THEN EmptyScript
            ELSE IF argv[2] \in files THEN Submitted(code) ELSE NotFound
      [] prog = Word("java") ->
            IF Path(argv[3].dir, argv[4].base, ".class") \in files
            THEN Submitted(code) ELSE NotFound
      [] OTHER -> IF prog \in files THEN Submitted(code) ELSE NotFound

\* what the process writes to its stdout and stderr pipes before it exits
StdoutOf(beh, stdin) == IF beh.echo THEN stdin ELSE << >>
StderrOf(beh) == IF beh.exit = 0 THEN << >> ELSE <<"e">>

\* ------------------------------------------------------------------ state
\* call[c]: the arguments and locals of caller c's invocation of execute_code,
\*          and where it stands in it; mkdtemps, compiles, runs and rmtrees
\*          count the directories it created, the compile and run processes
\*          it spawned and its calls of shutil.rmtree
\* tmp:     the workspace directories that exist under the system temp dir
\* sub:     the locals of one request of a submission route
\*          (submit_problem_solution, submit_olympiad_solution), where it
\*          stands, and its HTTP response
\* db:      the documents the submission routes write: the submission's
\*          status, the user's (or participant's) points and solved problems,
\*          the problem's solved_count
\* users_col, problems_col, olympiads_col, olympiad_participants_col:
\*          the collections of the same names, by user, problem id and
\*          olympiad id (olympiad_participants_col: the participants of one
\*          olympiad, by user)
\* request: the request threads of submit_olympiad_solution, what each has
\*          read and where it stands
\* served:  the requests served so far
VARIABLES call, tmp, sub, db,
          users_col, problems_col, olympiads_col, olympiad_participants_col,
          request, served

\* the stored collections and the requests working on them
cols == <<users_col, problems_col, olympiads_col, olympiad_participants_col,
          request, served>>

vars == <<call, tmp, sub, db, cols>>

\* Python's None as the value of `result` before a return statement ran
NoResult == [status |-> "None"]

Idle ==
    [pc |-> "idle",
     code |-> [compile |-> "ok", exit |-> 0, halts |-> TRUE, dur |-> 1],
     language |-> "python", input_data |-> [is_str |-> TRUE, text |-> << >>],
     time_limit |-> 2,
     temp_dir |-> 0, files |-> {}, compile_proc |-> "none", process |-> "none",
     argv |-> << >>, beh |-> [exit |-> 0, halts |-> TRUE, dur |-> 1, echo |-> FALSE],
     result |-> NoResult, raised |-> "none", exc |-> "none",
     rmtree |-> "not called",
     mkdtemps |-> 0, compiles |-> 0, runs |-> 0, rmtrees |-> 0]

\* no request of a submission route has arrived
NoSubmission ==
    [pc |-> "idle", route |-> "none",
     data |-> [code |-> [compile |-> "ok", exit |-> 0, halts |-> TRUE, dur |-> 1],
               language |-> "python"],
     problem |-> [test_cases |-> << >>, time_limit |-> 2, difficulty |-> "easy"],
     test_results |-> << >>, is_correct |-> TRUE, runtime |-> 0,
     final_status |-> "None", calls |-> 0, response |-> 0]

\* the documents before the request: no submission document, a user without
\* points, a problem nobody solved
EmptyDb ==
    [status |-> "None", total_points |-> 0, solved_problems |-> << >>,
     solved_count |-> 0]

\* the problems a request can name
ProblemIds == {"p", "q"}

\* the olympiads a request can name
OlympiadIds == {"o", "n"}

\* no document under this key
NoUser == [registered |-> FALSE, solved_problems |-> << >>, total_points |-> 0]
NoProblem == [stored |-> FALSE, difficulty |-> "easy", solved_count |-> 0]
NoOlympiad == [stored |-> FALSE, start_time |-> 0, end_time |-> 0, problems |-> {}]
NoParticipant == [registered |-> FALSE, problems_solved |-> << >>, total_points |-> 0]

\* a thread that serves no request
NoRequest ==
    [pc |-> "idle", user |-> 1, problem_id |-> "p", is_correct |-> FALSE,
     points |-> 0]

\* empty collections, no request
ColsInit ==
    /\ users_col = [u \in UserIds |-> NoUser]
    /\ problems_col = [p \in ProblemIds |-> NoProblem]
    /\ olympiads_col = [o \in OlympiadIds |-> NoOlympiad]
    /\ olympiad_participants_col = [u \in UserIds |-> NoParticipant]
    /\ request = [t \in Threads |-> NoRequest]
    /\ served = 0

Init ==
    /\ call = [c \in Calls |-> Idle]
    /\ tmp = {}
    /\ sub = NoSubmission
    /\ db = EmptyDb
    /\ ColsInit

lang_config(c) == LANGUAGE_CONFIG[Lower(call[c].language)]

\* filename = os.path.join(temp_dir, f"source{lang_config['extension']}")
filename(c) == Path(call[c].temp_dir, "source", lang_config(c).extension)

\* input_file = os.path.join(temp_dir, 'input.txt')
input_file(c) == Path(call[c].temp_dir, "input", ".txt")

IsJavascript(c) == Lower(call[c].language) = "javascript"

\* one request at a time: no other caller is inside execute_code
Alone(c) == \A d \in Calls \ {c} : call[d].pc = "idle"

\* execute_code(code, language, input_data, time_limit) is entered
Call(c) ==
    /\ call[c].pc = "idle"
    /\ Alone(c)
    /\ \E code \in Codes, language \in LanguageIds, input_data \in InputData,
          time_limit \in TimeLimits :
          call' = [call EXCEPT ![c] = [@ EXCEPT !.pc = "lookup", !.code = code,
                       !.language = language, !.input_data = input_data,
                       !.time_limit = time_limit]]
    /\ UNCHANGED tmp
    /\ UNCHANGED <<sub, db, cols>>

\* lang_config = LANGUAGE_CONFIG.get(language.lower()); raise ValueError
Lookup(c) ==
    /\ call[c].pc = "lookup"
    /\ IF Supported(call[c].language)
       THEN call' = [call EXCEPT ![c].pc = "mkdtemp"]
       ELSE call' = [call EXCEPT ![c].pc = "raised", ![c].raised = "ValueError"]
    /\ UNCHANGED tmp
    /\ UNCHANGED <<sub, db, cols>>

\* a name generator that does not look at the directories that exist
AnyNames == DirNames

\* the names mkdtemp can create: it creates the directory exclusively and
\* tries another name when the one it drew exists
FreshNames == DirNames \ tmp

\* temp_dir = tempfile.mkdtemp(): a directory that did not exist, or OSError
Mkdtemp(c) ==
    /\ call[c].pc = "mkdtemp"
    /\ \/ \E d \in FreshNames :
            /\ tmp' = tmp \cup {d}
            /\ call' = [call EXCEPT ![c].pc = "write", ![c].temp_dir = d,
                            ![c].mkdtemps = @ + 1]
       \/ /\ call' = [call EXCEPT ![c].pc = "raised", ![c].raised = "OSError"]
          /\ UNCHANGED tmp
    /\ UNCHANGED <<sub, db, cols>>

\* the files the try block writes before the compile step, when nothing fails
Written(c) == {filename(c)} \cup (IF IsJavascript(c) THEN {input_file(c)} ELSE {})

\* open(filename, 'w').write(code); os.chmod; for javascript the input file.
\* f.write(input_data) raises TypeError when input_data is no str; any of
\* the file operations may raise OSError.
WriteFiles(c) ==
    /\ call[c].pc = "write"
    /\ \/ /\ IsJavascript(c) => call[c].input_data.is_str
          /\ call' = [call EXCEPT ![c].files = Written(c),
                          ![c].pc = IF lang_config(c).compile THEN "compile" ELSE "popen"]
       \/ /\ IsJavascript(c) /\ ~call[c].input_data.is_str
          /\ call' = [call EXCEPT ![c].files = {filename(c)}, ![c].pc = "except",
                          ![c].exc = "TypeError"]
       \/ \E done \in SUBSET Written(c) :
            /\ done # Written(c)
            /\ filename(c) \notin done => done = {}
            /\ call' = [call EXCEPT ![c].files = done, ![c].pc = "except",
                            ![c].exc = "OSError"]
    /\ UNCHANGED tmp
    /\ UNCHANGED <<sub, db, cols>>

\* ------------------------------------------------------------------ waits
\* what the compiler does on the submitted code
CompilerOn(code) ==
    [exit |-> IF code.compile = "error" THEN 1 ELSE 0,
     halts |-> code.compile # "hang", dur |-> 1, echo |-> FALSE]

\* a wait with timeout=t returns: the child exits before t has passed
ExitsWithin(beh, t) == beh.halts /\ beh.dur <= t

\* a wait that no timeout ends
ExpiredNever(beh, t) == FALSE

\* a wait with timeout=t raises subprocess.TimeoutExpired: the child has not
\* exited when t has passed
Expired(beh, t) == ~ExitsWithin(beh, t)

\* the compiler's return code is not looked at
CompileNeverFails(beh) == FALSE

\* if compile_proc.returncode != 0
CompileFailed(beh) == beh.exit # 0

\* subprocess.run(..., timeout=lang_config['time_limit'])
compile_timeout(c) == lang_config(c).time_limit

\* process.communicate(..., timeout=lang_config['time_limit'])
communicate_timeout(c) == lang_config(c).time_limit

\* a return that leaves the function without running the finally clause
ReturnSkipsFinally(frame, outcome) == [frame EXCEPT !.result = outcome, !.pc = "returned"]

\* `return outcome` inside the try block: the finally clause runs before the
\* caller gets the value
Return(frame, outcome) == [frame EXCEPT !.result = outcome, !.pc = "finally"]

\* an exception raised inside the try block that no handler takes
RaisePropagates(frame, e) == [frame EXCEPT !.raised = e, !.pc = "raised"]

\* an exception raised inside the try block reaches `except Exception`
Raise(frame, e) == [frame EXCEPT !.exc = e, !.pc = "except"]

\* ------------------------------------------------------------------ compile
\* a 'Compilation Error' dictionary that reports the time the compiler took
CompilationErrorTimed(stderr) ==
    [status |-> "Compilation Error", error |-> stderr, runtime |-> 1]

\* the 'Compilation Error' dictionary
CompilationError(stderr) ==
    [status |-> "Compilation Error", error |-> stderr, runtime |-> 0]

\* the compiler's TimeoutExpired taken for the run's: Time Limit Exceeded
CompileTimeoutAsTLE(frame) ==
    Return(frame, [status |-> "Time Limit Exceeded", runtime |-> 0])

\* subprocess.run raises TimeoutExpired outside the inner try: only the
\* outer `except Exception` takes it
CompileTimeout(frame) == Raise(frame, "TimeoutExpired")

\* subprocess.run(lang_config['compile'](filename), ...) starts the compiler;
\* the spawn may fail (no such command, no more processes)
CompileStart(c) ==
    /\ call[c].pc = "compile"
    /\ \/ call' = [call EXCEPT ![c].compile_proc = "running", ![c].pc = "compile_wait",
                       ![c].compiles = @ + 1]
       \/ call' = [call EXCEPT ![c] = Raise(@, "OSError")]
    /\ UNCHANGED tmp
    /\ UNCHANGED <<sub, db, cols>>

\* the compiler exits within the timeout; `if compile_proc.returncode != 0`
CompileExit(c) ==
    LET beh == CompilerOn(call[c].code) IN
    /\ call[c].pc = "compile_wait"
    /\ ExitsWithin(beh, compile_timeout(c))
    /\ IF CompileFailed(beh)
       THEN call' = [call EXCEPT ![c] =
                Return([@ EXCEPT !.compile_proc = "exited"],
                       CompilationError(StderrOf(beh)))]
       ELSE call' = [call EXCEPT ![c].compile_proc = "exited", ![c].pc = "popen",
                         ![c].files = @ \cup
                             {Artifact(CompileCommand(Lower(call[c].language), filename(c)))}]
    /\ UNCHANGED tmp
    /\ UNCHANGED <<sub, db, cols>>

\* the compiler is still running at the timeout: subprocess.run kills it,
\* waits for it and raises TimeoutExpired
CompileExpired(c) ==
    /\ call[c].pc = "compile_wait"
    /\ Expired(CompilerOn(call[c].code), compile_timeout(c))
    /\ call' = [call EXCEPT ![c] = CompileTimeout([@ EXCEPT !.compile_proc = "killed"])]
    /\ UNCHANGED tmp
    /\ UNCHANGED <<sub, db, cols>>

\* ------------------------------------------------------------------ run
\* run_command = lang_config['run'](filename), replaced for javascript
run_command(c) ==
    IF IsJavascript(c)
    THEN <<Word("node"), filename(c), Word("<"), input_file(c)>>
    ELSE ProfileRun(Lower(call[c].language), filename(c))

\* process = subprocess.Popen(run_command, ..., shell=(javascript)); the spawn
\* may fail
Popen(c) ==
    /\ call[c].pc = "popen"
    /\ \/ call' = [call EXCEPT ![c].process = "running", ![c].pc = "communicate",
                       ![c].runs = @ + 1,
                       ![c].argv = Argv(run_command(c), IsJavascript(c)),
                       ![c].beh = Exec(Argv(run_command(c), IsJavascript(c)),
                                       call[c].files, call[c].code)]
       \/ call' = [call EXCEPT ![c] = Raise(@, "OSError")]
    /\ UNCHANGED tmp
    /\ UNCHANGED <<sub, db, cols>>

\* what the run process does
Running(c) == call[c].beh

\* input=input_data if language.lower() != 'javascript' else None: the text
\* the process can read on its standard input
Fed(c) == IF IsJavascript(c) THEN << >> ELSE call[c].input_data.text

\* communicate(input=...) in text mode encodes its input: a value that is
\* neither None nor a str raises AttributeError before anything is waited for
InputRaises(c) == ~IsJavascript(c) /\ ~call[c].input_data.is_str

\* runtime = time.time() - start_time
Elapsed(beh) == beh.dur

\* a 'Runtime Error' dictionary with the output trimmed as for 'Accepted'
RuntimeErrorStripped(stdout, stderr, runtime) ==
    [status |-> "Runtime Error", output |-> Strip(stdout), error |-> stderr,
     runtime |-> runtime]

\* the 'Runtime Error' dictionary
RuntimeError(stdout, stderr, runtime) ==
    [status |-> "Runtime Error", output |-> stdout, error |-> stderr, runtime |-> runtime]

\* an 'Accepted' dictionary with the output as captured
AcceptedUntrimmed(stdout, runtime) ==
    [status |-> "Accepted", output |-> stdout, runtime |-> runtime]

\* the 'Accepted' dictionary
Accepted(stdout, runtime) ==
    [status |-> "Accepted", output |-> Strip(stdout), runtime |-> runtime]

\* the caller's limit reported as the runtime of a timed-out run
timeout_runtime_arg(c) == call[c].time_limit

\* 'runtime': lang_config['time_limit'] of the 'Time Limit Exceeded' dictionary
timeout_runtime(c) == lang_config(c).time_limit

\* communicate raises something else than TimeoutExpired: the outer handler
\* takes it; the process is neither killed nor waited for
CommunicateRaise(c) ==
    /\ call[c].pc = "communicate"
    /\ InputRaises(c)
    /\ call' = [call EXCEPT ![c] = Raise(@, "AttributeError")]
    /\ UNCHANGED tmp
    /\ UNCHANGED <<sub, db, cols>>

\* the process exits within the timeout
CommunicateExit(c) ==
    LET beh == Running(c)
        stdout == StdoutOf(beh, Fed(c))
        stderr == StderrOf(beh)
    IN
    /\ call[c].pc = "communicate"
    /\ ~InputRaises(c)
    /\ ExitsWithin(beh, communicate_timeout(c))
    /\ IF beh.exit # 0
       THEN call' = [call EXCEPT ![c] =
                Return([@ EXCEPT !.process = "exited"],
                       RuntimeError(stdout, stderr, Elapsed(beh)))]
       ELSE call' = [call EXCEPT ![c] =
                Return([@ EXCEPT !.process = "exited"],
                       Accepted(stdout, Elapsed(beh)))]
    /\ UNCHANGED tmp
    /\ UNCHANGED <<sub, db, cols>>

\* except subprocess.TimeoutExpired: process.kill()
CommunicateExpired(c) ==
    /\ call[c].pc = "communicate"
    /\ ~InputRaises(c)
    /\ Expired(Running(c), communicate_timeout(c))
    /\ call' = [call EXCEPT ![c] =
            Return([@ EXCEPT !.process = "killed"],
                   [status |-> "Time Limit Exceeded",
                    runtime |-> timeout_runtime(c)])]
    /\ UNCHANGED tmp
    /\ UNCHANGED <<sub, db, cols>>

\* ------------------------------------------------------------------ handlers
\* an 'Evaluation Error' dictionary without the message
EvaluationErrorSilent(e) == [status |-> "Evaluation Error", runtime |-> 0]

\* the 'Evaluation Error' dictionary; 'error' is str(e)
EvaluationError(e) == [status |-> "Evaluation Error", error |-> e, runtime |-> 0]

\* except Exception as e
Except(c) ==
    /\ call[c].pc = "except"
    /\ call' = [call EXCEPT ![c] = Return(@, EvaluationError(call[c].exc))]
    /\ UNCHANGED tmp
    /\ UNCHANGED <<sub, db, cols>>

\* the files of `files` that are not under directory `dir`
Outside(files, dir) == {f \in files : f.dir # dir}

\* finally: shutil.rmtree(temp_dir, ignore_errors=True), then the pending
\* return.  The tree is removed (with every file under it, whoever wrote
\* it), or the removal fails and the failure is ignored.
Finally(c) ==
    /\ call[c].pc = "finally"
    /\ \/ /\ tmp' = tmp \ {call[c].temp_dir}
          /\ call' = [d \in Calls |->
                IF d = c
                THEN [call[c] EXCEPT !.pc = "returned", !.files = {},
                                     !.rmtree = "removed", !.rmtrees = @ + 1]
                ELSE [call[d] EXCEPT !.files = Outside(@, call[c].temp_dir)]]
       \/ /\ call' = [call EXCEPT ![c].pc = "returned", ![c].rmtree = "failed",
                          ![c].rmtrees = @ + 1]
          /\ UNCHANGED tmp
    /\ UNCHANGED <<sub, db, cols>>

\* ------------------------------------------------------------------ specification
Step(c) ==
    \/ Call(c)
    \/ Lookup(c)
    \/ Mkdtemp(c)
    \/ WriteFiles(c)
    \/ CompileStart(c)
    \/ CompileExit(c)
    \/ CompileExpired(c)
    \/ Popen(c)
    \/ CommunicateRaise(c)
    \/ CommunicateExit(c)
    \/ CommunicateExpired(c)
    \/ Except(c)
    \/ Finally(c)

Next == \E c \in Calls : Step(c)

Spec == Init /\ [][Next]_vars

\* the thread inside execute_code keeps running, and a wait with a timeout
\* ends when the child exits or the timeout passes
LiveSpec == Spec /\ \A c \in Calls : WF_vars(Step(c) /\ call[c].pc # "idle")

\* ------------------------------------------------------------------ concurrent calls
\* Requests of concurrent callers: one per way through execute_code.
\*   python, echo, "h\n";  cpp, runs 4.5 s, " h";  Java, the compiler never
\*   ends;  python, endless loop, input that is no str
ConcRequests ==
    { [code |-> [compile |-> "ok", exit |-> 0, halts |-> TRUE, dur |-> 1],
       language |-> "python", input_data |-> [is_str |-> TRUE, text |-> <<"h", "\n">>],
       time_limit |-> 2],
      [code |-> [compile |-> "ok", exit |-> 0, halts |-> TRUE, dur |-> 9],
       language |-> "cpp", input_data |-> [is_str |-> TRUE, text |-> <<" ", "h">>],
       time_limit |-> 10],
      [code |-> [compile |-> "hang", exit |-> 0, halts |-> TRUE, dur |-> 1],
       language |-> "Java", input_data |-> [is_str |-> TRUE, text |-> << >>],
       time_limit |-> 10],
      [code |-> [compile |-> "ok", exit |-> 0, halts |-> FALSE, dur |-> 1],
       language |-> "python", input_data |-> [is_str |-> FALSE, text |-> << >>],
       time_limit |-> 2] }

\* the arguments of call c
Request(c) ==
    [code |-> call[c].code, language |-> call[c].language,
     input_data |-> call[c].input_data, time_limit |-> call[c].time_limit]

\* execute_code is entered by a request thread, whatever the others do
CallConc(c) ==
    /\ call[c].pc = "idle"
    /\ \E r \in ConcRequests :
          call' = [call EXCEPT ![c] = [@ EXCEPT !.pc = "lookup", !.code = r.code,
                       !.language = r.language, !.input_data = r.input_data,
                       !.time_limit = r.time_limit]]
    /\ UNCHANGED tmp
    /\ UNCHANGED <<sub, db, cols>>

ConcStep(c) ==
    \/ CallConc(c)
    \/ Lookup(c)
    \/ Mkdtemp(c)
    \/ WriteFiles(c)
    \/ CompileStart(c)
    \/ CompileExit(c)
    \/ CompileExpired(c)
    \/ Popen(c)
    \/ CommunicateRaise(c)
    \/ CommunicateExit(c)
    \/ CommunicateExpired(c)
    \/ Except(c)
    \/ Finally(c)

ConcNext == \E c \in Calls : ConcStep(c)

\* the request threads of the server run execute_code concurrently
ConcSpec == Init /\ [][ConcNext]_vars

\* ------------------------------------------------------------------ submissions
\* submit_problem_solution and submit_olympiad_solution: one request.  The
\* k-th call of execute_code of the request runs in frame call[k].
Routes == {"problem", "olympiad"}

\* submitted sources: echo; exits 1 (and does not compile); endless loop;
\* a source the compiler never finishes
SubmittedCodes ==
    { [compile |-> "ok", exit |-> 0, halts |-> TRUE, dur |-> 1],
      [compile |-> "error", exit |-> 1, halts |-> TRUE, dur |-> 1],
      [compile |-> "ok", exit |-> 0, halts |-> FALSE, dur |-> 1],
      [compile |-> "hang", exit |-> 0, halts |-> TRUE, dur |-> 1] }

SubmittedLanguages == {"python", "Java", "brainfuck"}

\* stored test cases: "h\n" expecting "h"; " h" expecting " h"; an input that
\* is no str (create_problem checks only that both keys are there)
TestCases ==
    { [input |-> [is_str |-> TRUE, text |-> <<"h", "\n">>], output |-> <<"h">>],
      [input |-> [is_str |-> TRUE, text |-> <<" ", "h">>], output |-> <<" ", "h">>],
      [input |-> [is_str |-> FALSE, text |-> << >>], output |-> <<"h">>] }

\* the stored problems: their test case lists, time_limit (1 s), difficulty
Problems ==
    [test_cases : UNION {[1..n -> TestCases] : n \in 0..NumCalls},
     time_limit : {2}, difficulty : {"easy", "hard"}]

\* the id of the problem submitted to
ProblemId == "p"

\* what can be wrong with a request besides its language
Obstacles(route) ==
    {"none", "fields", "problem"} \cup
    (IF route = "olympiad" THEN {"participation", "olympiad", "window", "foreign"}
     ELSE {})

\* The checks before the loop, in the order of the code: the status code of
\* the refusal, 0 when the request passes them.
Refusal(route, obstacle, language, solved) ==
    CASE obstacle = "fields" -> 400
      [] ~Supported(language) -> 400
      [] obstacle = "participation" -> 403
      [] obstacle = "olympiad" -> 404
      [] obstacle \in {"window", "foreign"} -> 400
      [] route = "olympiad" /\ \E i \in DOMAIN solved : solved[i] = ProblemId -> 400
      [] obstacle = "problem" -> 404
      [] OTHER -> 0

\* the request arrives; the submission document is inserted as 'Pending'
Submit ==
    /\ sub.pc = "idle"
    /\ \E route \in Routes, code \in SubmittedCodes, language \in SubmittedLanguages,
          problem \in Problems :
          \E obstacle \in Obstacles(route) :
             LET refused == Refusal(route, obstacle, language, db.solved_problems) IN
             IF refused # 0
             THEN /\ sub' = [sub EXCEPT !.pc = "done", !.route = route,
                                        !.response = refused]
                  /\ UNCHANGED db
             ELSE /\ sub' = [sub EXCEPT !.pc = "loop", !.route = route,
                                 !.data = [code |-> code, language |-> language],
                                 !.problem = problem]
                  /\ db' = [db EXCEPT !.status = "Pending"]
    /\ UNCHANGED <<call, tmp, cols>>

\* a loop that ends at the first failed test case
LoopStopsAtFailure(s) ==
    Len(s.test_results) = Len(s.problem.test_cases) \/ ~s.is_correct

\* for test_case in problem.get('test_cases', []): no test case is left
LoopExhausted(s) == Len(s.test_results) = Len(s.problem.test_cases)

\* the test case of the current iteration
test_case(s) == s.problem.test_cases[Len(s.test_results) + 1]

\* the frame of the current iteration's call of execute_code
Frame(s) == Len(s.test_results) + 1

\* result = execute_code(code=data['code'], language=data['language'],
\*     input_data=test_case['input'], time_limit=problem.get('time_limit', ..))
LoopCall ==
    /\ sub.pc = "loop"
    /\ ~LoopExhausted(sub)
    /\ call[Frame(sub)].pc = "idle"
    /\ call' = [call EXCEPT ![Frame(sub)] =
                   [@ EXCEPT !.pc = "lookup", !.code = sub.data.code,
                             !.language = sub.data.language,
                             !.input_data = test_case(sub).input,
                             !.time_limit = sub.problem.time_limit]]
    /\ sub' = [sub EXCEPT !.pc = "waiting", !.calls = @ + 1]
    /\ UNCHANGED <<tmp, db, cols>>

\* dict.get(key, default)
Get(d, key, default) == IF key \in DOMAIN d THEN d[key] ELSE default

Max(a, b) == IF a >= b THEN a ELSE b

\* the test_result of a call that returned
TestResult(tc, result) ==
    IF "error" \in DOMAIN result
    THEN [input |-> tc.input, expected |-> tc.output,
          actual |-> Get(result, "output", << >>),
          runtime |-> Get(result, "runtime", 0), status |-> result.status,
          error |-> result.error]
    ELSE [input |-> tc.input, expected |-> tc.output,
          actual |-> Get(result, "output", << >>),
          runtime |-> Get(result, "runtime", 0), status |-> result.status]

\* the test_result of a call that raised
TestError(tc, e) ==
    [input |-> tc.input, expected |-> tc.output, status |-> "Evaluation Error",
     error |-> e, runtime |-> 0]

\* a verdict that looks at the status only
FailedByStatus(result, tc) == result.status # "Accepted"

\* result['status'] != 'Accepted' or result.get('output', '') != test_case['output']
Failed(result, tc) ==
    result.status # "Accepted" \/ Get(result, "output", << >>) # tc.output

\* What is left of a call once the caller has its outcome: the arguments it
\* was made with and what it returned or raised; its locals are gone.
Left(frame) ==
    [Idle EXCEPT !.pc = frame.pc, !.code = frame.code, !.language = frame.language,
                 !.input_data = frame.input_data, !.time_limit = frame.time_limit,
                 !.result = frame.result, !.raised = frame.raised]

\* execute_code returned: the body of the try
LoopReturn ==
    /\ sub.pc = "waiting"
    /\ call[Frame(sub)].pc = "returned"
    /\ LET result == call[Frame(sub)].result
           tc == test_case(sub)
       IN sub' = [sub EXCEPT !.pc = "loop",
                      !.test_results = Append(@, TestResult(tc, result)),
                      !.is_correct = @ /\ ~Failed(result, tc),
                      !.runtime = Max(@, Get(result, "runtime", 0))]
    /\ call' = [call EXCEPT ![Frame(sub)] = Left(@)]
    /\ UNCHANGED <<tmp, db, cols>>

\* execute_code raised: except Exception as e
LoopExcept ==
    /\ sub.pc = "waiting"
    /\ call[Frame(sub)].pc = "raised"
    /\ sub' = [sub EXCEPT !.pc = "loop",
                   !.test_results = Append(@, TestError(test_case(sub),
                                                        call[Frame(sub)].raised)),
                   !.is_correct = FALSE]
    /\ call' = [call EXCEPT ![Frame(sub)] = Left(@)]
    /\ UNCHANGED <<tmp, db, cols>>

\* int(time_taken): whole seconds between execution_start and the end of the loop
TimesTaken == {0, 50, 300}

\* {'easy': 100, 'medium': 200, 'hard': 300}.get(problem['difficulty'].lower(), 100)
BasePoints(difficulty) ==
    CASE difficulty = "easy" -> 100
      [] difficulty = "medium" -> 200
      [] difficulty = "hard" -> 300
      [] OTHER -> 100

\* the points of an accepted submission: 10 on the problem route,
\* max(10, base_points - int(time_taken)) on the olympiad route
Points(route, difficulty, time_taken) ==
    IF route = "problem" THEN 10
    ELSE Max(10, BasePoints(difficulty) - time_taken)

\* $addToSet on the problem route, $push on the olympiad route
Solved(route, solved) ==
    IF route = "problem" /\ \E i \in DOMAIN solved : solved[i] = ProblemId
    THEN solved ELSE Append(solved, ProblemId)

\* The end of the handler: final_status, then the update of the submission,
\* of the user (or participant) and of the problem; `fails` is the update
\* that raises (the handler then answers 500), "none" when all succeed.
Finish ==
    /\ sub.pc = "loop"
    /\ LoopExhausted(sub)
    /\ LET final_status == IF sub.is_correct THEN "Accepted" ELSE "Rejected" IN
       \E time_taken \in TimesTaken,
          fails \in IF sub.is_correct
                    THEN {"none", "submissions", "users", "problems"}
                    ELSE {"none", "submissions"} :
          /\ sub' = [sub EXCEPT !.pc = "done", !.final_status = final_status,
                         !.response = IF fails = "none" THEN 200 ELSE 500]
          /\ db' = [status |-> IF fails = "submissions" THEN db.status
                               ELSE final_status,
                    total_points |->
                        IF sub.is_correct /\ fails \in {"none", "problems"}
                        THEN db.total_points +
                             Points(sub.route, sub.problem.difficulty, time_taken)
                        ELSE db.total_points,
                    solved_problems |->
                        IF sub.is_correct /\ fails \in {"none", "problems"}
                        THEN Solved(sub.route, db.solved_problems)
                        ELSE db.solved_problems,
                    solved_count |->
                        IF sub.is_correct /\ fails = "none"
                        THEN db.solved_count + 1 ELSE db.solved_count]
    /\ UNCHANGED <<call, tmp, cols>>

\* the steps inside execute_code
Execute(c) ==
    \/ Lookup(c)
    \/ Mkdtemp(c)
    \/ WriteFiles(c)
    \/ CompileStart(c)
    \/ CompileExit(c)
    \/ CompileExpired(c)
    \/ Popen(c)
    \/ CommunicateRaise(c)
    \/ CommunicateExit(c)
    \/ CommunicateExpired(c)
    \/ Except(c)
    \/ Finally(c)

\* the documents of a user who solved the problem once before
SolvedDb ==
    [status |-> "None", total_points |-> 10, solved_problems |-> <<ProblemId>>,
     solved_count |-> 1]

\* the user solved the problem before, or did not
SubmitInit ==
    /\ call = [c \in Calls |-> Idle]
    /\ tmp = {}
    /\ sub = NoSubmission
    /\ db \in {EmptyDb, SolvedDb}
    /\ ColsInit

SubmitNext ==
    \/ Submit
    \/ LoopCall
    \/ LoopReturn
    \/ LoopExcept
    \/ Finish
    \/ \E c \in Calls : Execute(c)

SubmitSpec == SubmitInit /\ [][SubmitNext]_vars

\* ------------------------------------------------------------------ points
\* register, create_problem and submit_problem_solution as requests served
\* one after the other on users_col and problems_col.

\* $addToSet: the list with x added unless it is there
AddToSet(list, x) ==
    IF \E i \in DOMAIN list : list[i] = x THEN list ELSE Append(list, x)

\* the elements of a list
Elements(list) == {list[i] : i \in DOMAIN list}

\* register: a new user has no solved problems and no points
register(u) ==
    /\ served < MaxRequests
    /\ served' = served + 1
    /\ IF users_col[u].registered
       THEN UNCHANGED users_col
       ELSE users_col' = [users_col EXCEPT ![u] =
                [registered |-> TRUE, solved_problems |-> << >>, total_points |-> 0]]
    /\ UNCHANGED <<call, tmp, sub, db, problems_col, olympiads_col,
                   olympiad_participants_col, request>>

\* create_problem: a new problem has solved_count 0
create_problem(p) ==
    /\ served < MaxRequests
    /\ served' = served + 1
    /\ IF problems_col[p].stored
       THEN UNCHANGED problems_col
       ELSE \E difficulty \in {"easy", "hard"} :
               problems_col' = [problems_col EXCEPT ![p] =
                   [stored |-> TRUE, difficulty |-> difficulty, solved_count |-> 0]]
    /\ UNCHANGED <<call, tmp, sub, db, users_col, olympiads_col,
                   olympiad_participants_col, request>>

\* submit_problem_solution by user u for problem p; is_correct is the verdict
\* of the loop over the problem's test cases.  A request without a valid
\* token, in an unsupported language or for a problem that is not stored is
\* refused and writes nothing.
submit_problem_solution(u, p) ==
    /\ served < MaxRequests
    /\ served' = served + 1
    /\ \E language \in SubmittedLanguages, is_correct \in BOOLEAN :
          IF /\ users_col[u].registered
             /\ Supported(language)
             /\ problems_col[p].stored
             /\ is_correct
          THEN /\ users_col' = [users_col EXCEPT
                     ![u].solved_problems = AddToSet(@, p),
                     ![u].total_points = @ + 10]
               /\ problems_col' = [problems_col EXCEPT ![p].solved_count = @ + 1]
          ELSE UNCHANGED <<users_col, problems_col>>
    /\ UNCHANGED <<call, tmp, sub, db, olympiads_col, olympiad_participants_col,
                   request>>

PointsNext ==
    \/ \E u \in UserIds : register(u)
    \/ \E p \in ProblemIds : create_problem(p)
    \/ \E u \in UserIds, p \in ProblemIds : submit_problem_solution(u, p)

PointsSpec == Init /\ [][PointsNext]_vars

\* ------------------------------------------------------------------ olympiads
\* create_olympiad, update_olympiad and delete_olympiad as requests of an
\* admin served one after the other on olympiads_col.

\* the value of a 'start_time' or 'end_time' field of a request: a text in
\* ISO format naming an instant, or a text datetime.fromisoformat rejects
TimeTexts == [iso : {TRUE}, instant : Times] \cup [iso : {FALSE}, instant : {1}]

\* the optional fields of an update: a field that is absent, or its text
Absent == [iso |-> FALSE, instant |-> 0]
OptionalTimeTexts == TimeTexts \cup {Absent}

\* create_olympiad refuses a request whose fields are missing, whose times do
\* not parse, whose start_time >= end_time, or whose problems are no
\* non-empty list; otherwise it inserts the olympiad under a new id
create_olympiad(o) ==
    /\ served < MaxRequests
    /\ served' = served + 1
    /\ ~olympiads_col[o].stored
    /\ \E fields \in BOOLEAN, start_time \in TimeTexts, end_time \in TimeTexts,
          problems \in SUBSET ProblemIds :
          IF /\ fields
             /\ start_time.iso /\ end_time.iso
             /\ ~(start_time.instant >= end_time.instant)
             /\ problems # {}
          THEN olympiads_col' = [olympiads_col EXCEPT ![o] =
                    [stored |-> TRUE, start_time |-> start_time.instant,
                     end_time |-> end_time.instant, problems |-> problems]]
          ELSE UNCHANGED olympiads_col
    /\ UNCHANGED <<call, tmp, sub, db, users_col, problems_col,
                   olympiad_participants_col, request>>

\* update_olympiad: every field of the request that parses goes into
\* `updates`, and $set writes them to the olympiad if it is stored; a field
\* that does not parse ends the request with 400
update_olympiad(o) ==
    /\ served < MaxRequests
    /\ served' = served + 1
    /\ \E start_time \in OptionalTimeTexts, end_time \in OptionalTimeTexts,
          problems \in [present : BOOLEAN, list : SUBSET ProblemIds] :
          IF /\ olympiads_col[o].stored
             /\ start_time = Absent \/ start_time.iso
             /\ end_time = Absent \/ end_time.iso
          THEN olympiads_col' = [olympiads_col EXCEPT
                    ![o].start_time =
                        IF start_time = Absent THEN @ ELSE start_time.instant,
                    ![o].end_time =
                        IF end_time = Absent THEN @ ELSE end_time.instant,
                    ![o].problems =
                        IF problems.present THEN problems.list ELSE @]
          ELSE UNCHANGED olympiads_col
    /\ UNCHANGED <<call, tmp, sub, db, users_col, problems_col,
                   olympiad_participants_col, request>>

\* delete_olympiad
delete_olympiad(o) ==
    /\ served < MaxRequests
    /\ served' = served + 1
    /\ olympiads_col' = [olympiads_col EXCEPT ![o] = NoOlympiad]
    /\ UNCHANGED <<call, tmp, sub, db, users_col, problems_col,
                   olympiad_participants_col, request>>

OlympiadNext ==
    \E o \in OlympiadIds :
        \/ create_olympiad(o)
        \/ update_olympiad(o)
        \/ delete_olympiad(o)

OlympiadSpec == Init /\ [][OlympiadNext]_vars

\* ------------------------------------------------------------------ olympiad submissions
\* register_for_olympiad and submit_olympiad_solution for the olympiad "o",
\* served by the request threads of the server (app.run serves each request
\* in a thread of its own), every read and write of a collection being one
\* step.

\* register_for_olympiad: a participant starts with no solved problem
register_for_olympiad(u) ==
    /\ served < MaxRequests
    /\ served' = served + 1
    /\ IF olympiads_col["o"].stored /\ ~olympiad_participants_col[u].registered
       THEN olympiad_participants_col' = [olympiad_participants_col EXCEPT ![u] =
                [registered |-> TRUE, problems_solved |-> << >>, total_points |-> 0]]
       ELSE UNCHANGED olympiad_participants_col
    /\ UNCHANGED <<call, tmp, sub, db, users_col, problems_col, olympiads_col,
                   request>>

\* any(p['problem_id'] == problem_id for p in participation['problems_solved'])
AlreadySolved(participation, problem_id) ==
    \E i \in DOMAIN participation.problems_solved :
        participation.problems_solved[i].problem_id = problem_id

\* The checks of submit_olympiad_solution on what it read when the request
\* came in: TRUE when the submission goes on to the test cases.
Admitted(u, problem_id, language, now) ==
    /\ Supported(language)
    /\ olympiad_participants_col[u].registered
    /\ olympiads_col["o"].stored
    /\ ~(now < olympiads_col["o"].start_time)
    /\ ~(now > olympiads_col["o"].end_time)
    /\ problem_id \in olympiads_col["o"].problems
    /\ ~AlreadySolved(olympiad_participants_col[u], problem_id)
    /\ problems_col[problem_id].stored

\* Thread t takes a request of user u: it reads the participation and the
\* olympiad, runs the checks and, when they pass, starts the loop over the
\* test cases, whose verdict will be is_correct.
OlympiadReceive(t) ==
    /\ request[t].pc = "idle"
    /\ served < MaxRequests
    /\ served' = served + 1
    /\ \E u \in UserIds, problem_id \in ProblemIds, language \in SubmittedLanguages,
          now \in Times, is_correct \in BOOLEAN :
          IF users_col[u].registered /\ Admitted(u, problem_id, language, now)
          THEN request' = [request EXCEPT ![t] =
                    [pc |-> "judging", user |-> u, problem_id |-> problem_id,
                     is_correct |-> is_correct, points |-> 0]]
          ELSE UNCHANGED request
    /\ UNCHANGED <<call, tmp, sub, db, users_col, problems_col, olympiads_col,
                   olympiad_participants_col>>

\* The loop of thread t has ended.  An accepted submission pushes its entry
\* to problems_solved and adds its points in one update_one; a rejected one
\* ends the request.
OlympiadCredit(t) ==
    /\ request[t].pc = "judging"
    /\ IF request[t].is_correct
       THEN \E time_taken \in TimesTaken :
              LET total_points ==
                      Max(10, BasePoints(problems_col[request[t].problem_id].difficulty)
                              - time_taken)
              IN /\ olympiad_participants_col' =
                        [olympiad_participants_col EXCEPT
                            ![request[t].user].problems_solved =
                                Append(@, [problem_id |-> request[t].problem_id,
                                           points_earned |-> total_points]),
                            ![request[t].user].total_points = @ + total_points]
                 /\ request' = [request EXCEPT ![t].pc = "counting",
                                               ![t].points = total_points]
       ELSE /\ request' = [request EXCEPT ![t] = NoRequest]
            /\ UNCHANGED olympiad_participants_col
    /\ UNCHANGED <<call, tmp, sub, db, users_col, problems_col, olympiads_col,
                   served>>

\* problems_col.update_one({'id': ..}, {'$inc': {'solved_count': 1}}), and
\* the response
OlympiadCount(t) ==
    /\ request[t].pc = "counting"
    /\ problems_col' = [problems_col EXCEPT ![request[t].problem_id].solved_count = @ + 1]
    /\ request' = [request EXCEPT ![t] = NoRequest]
    /\ UNCHANGED <<call, tmp, sub, db, users_col, olympiads_col,
                   olympiad_participants_col, served>>

\* the users are registered, the problems stored, and the olympiad "o" runs
\* from instant 1 to instant 2 with one or both problems
ContestInit ==
    /\ call = [c \in Calls |-> Idle]
    /\ tmp = {}
    /\ sub = NoSubmission
    /\ db = EmptyDb
    /\ users_col = [u \in UserIds |-> [NoUser EXCEPT !.registered = TRUE]]
    /\ problems_col =
          [p \in ProblemIds |->
              [stored |-> TRUE, difficulty |-> IF p = "p" THEN "easy" ELSE "hard",
               solved_count |-> 0]]
    /\ \E problems \in {{"p"}, ProblemIds} :
          olympiads_col =
              [o \in OlympiadIds |->
                  IF o = "o"
                  THEN [stored |-> TRUE, start_time |-> 1, end_time |-> 2,
                        problems |-> problems]
                  ELSE NoOlympiad]
    /\ olympiad_participants_col = [u \in UserIds |-> NoParticipant]
    /\ request = [t \in Threads |-> NoRequest]
    /\ served = 0

ContestNext ==
    \/ \E u \in UserIds : register_for_olympiad(u)
    \/ \E t \in Threads :
          \/ OlympiadReceive(t)
          \/ OlympiadCredit(t)
          \/ OlympiadCount(t)

ContestSpec == ContestInit /\ [][ContestNext]_vars

\* ------------------------------------------------------------------ claims
Statuses ==
    {"Accepted", "Compilation Error", "Runtime Error", "Time Limit Exceeded",
     "Evaluation Error"}

\* the identifiers of LanguageIds that match a profile, case-insensitively
Matching == {"python", "Java", "cpp", "javascript"}

\* the limit of the profile a matching identifier selects, in half seconds
ProfileLimit(language) ==
    CASE language = "python" -> 4
      [] language = "Java" -> 8
      [] language = "cpp" -> 6
      [] language = "javascript" -> 5

HasReturned(c) == call[c].pc = "returned"

\* C1 as stated: when a call with a supported language returns, the workspace
\* directory it created no longer exists, whatever the outcome.
C1_WorkspaceGone ==
    \A c \in Calls : HasReturned(c) => call[c].temp_dir \notin tmp

\* C1 as amended: when a call that allocated a workspace returns (with any
\* outcome, an exception inside the try block included), shutil.rmtree has
\* been called on that workspace; the directory and the files in it no longer
\* exist unless that removal failed, and a failed removal is ignored.
C1_CleanupAttempted ==
    \A c \in Calls :
        /\ HasReturned(c) =>
              /\ call[c].temp_dir # 0
              /\ call[c].rmtree # "not called"
              /\ call[c].rmtree = "removed" =>
                    call[c].temp_dir \notin tmp /\ call[c].files = {}
        /\ call[c].temp_dir \in tmp /\ call[c].temp_dir # 0 =>
              call[c].pc # "raised" /\ call[c].rmtree # "removed"

C1_Witness ==
    \E c \in Calls :
        /\ HasReturned(c)
        /\ call[c].result.status = "Evaluation Error"
        /\ call[c].exc = "TimeoutExpired"
        /\ call[c].rmtree = "removed"
        /\ call[c].temp_dir \notin tmp

\* C2: a call whose language identifier matches no profile ends with the
\* 'unsupported language' ValueError and no outcome, and has created no
\* workspace directory, written no file and spawned no process.
C2_UnsupportedRejectedFirst ==
    \A c \in Calls :
        call[c].pc \notin {"idle", "lookup"} /\ call[c].language \notin Matching =>
            /\ call[c].pc = "raised"
            /\ call[c].raised = "ValueError"
            /\ call[c].result = NoResult
            /\ call[c].temp_dir = 0
            /\ call[c].files = {}
            /\ call[c].compile_proc = "none"
            /\ call[c].process = "none"
            /\ \A d \in tmp : \E e \in Calls \ {c} : call[e].temp_dir = d

C2_Witness ==
    \E c \in Calls :
        /\ call[c].language = "brainfuck"
        /\ call[c].pc = "raised"
        /\ call[c].raised = "ValueError"
        /\ tmp = {}

\* C3: the wait for the run process is bounded by the time_limit argument:
\* a run that communicate waited for ends as Time Limit Exceeded exactly when
\* the process had not exited after time_limit.
C3_WaitBoundedByArgument ==
    \A c \in Calls :
        HasReturned(c) /\ call[c].process \in {"exited", "killed"} =>
            (call[c].result.status = "Time Limit Exceeded"
                <=> ~(call[c].beh.halts /\ call[c].beh.dur <= call[c].time_limit))

\* C4: once the language is supported and the workspace is allocated, nothing
\* propagates to the caller: the call does not end in an exception, every
\* exception raised inside the try block ends as an Evaluation Error outcome,
\* and a returned call carries one outcome with a status of the enumeration.
\* A call that ends in an exception has allocated nothing, and the exception
\* is the unsupported-language ValueError or mkdtemp's OSError.
C4_NothingPropagates ==
    \A c \in Calls :
        /\ call[c].temp_dir # 0 => call[c].pc # "raised" /\ call[c].raised = "none"
        /\ HasReturned(c) =>
              /\ call[c].result.status \in Statuses
              /\ call[c].exc # "none" <=> call[c].result.status = "Evaluation Error"
        /\ call[c].pc = "raised" =>
              /\ call[c].result = NoResult
              /\ call[c].raised =
                    IF call[c].language \in Matching THEN "OSError" ELSE "ValueError"

C4_Witness ==
    \E c \in Calls :
        /\ HasReturned(c)
        /\ call[c].exc = "OSError"
        /\ call[c].compile_proc = "exited"
        /\ call[c].process = "none"
        /\ call[c].result.status = "Evaluation Error"

\* C5: when the compile process of a language with a compile step exits
\* non-zero, the outcome is Compilation Error with the compiler's stderr and
\* runtime 0, and no run process is spawned in that call.
C5_CompilationError ==
    \A c \in Calls :
        call[c].compile_proc = "exited" /\ call[c].code.compile = "error" =>
            /\ call[c].pc \in {"finally", "returned"}
            /\ call[c].process = "none"
            /\ call[c].result =
                  [status |-> "Compilation Error", error |-> <<"e">>, runtime |-> 0]

C5_Witness ==
    \E c \in Calls :
        /\ HasReturned(c)
        /\ call[c].language = "Java"
        /\ call[c].code.compile = "error"
        /\ call[c].result.status = "Compilation Error"
        /\ call[c].process = "none"

\* a program that copies its input to its output and exits 0 at once
EchoProgram == [compile |-> "ok", exit |-> 0, halts |-> TRUE, dur |-> 1]

\* C6: for every supported language, the run process executes the written
\* source and reads the stdin payload: an echo program given a text payload
\* yields Accepted with stdout equal to the trimmed payload (unless a file
\* operation or a spawn failed).
C6_EchoAccepted ==
    \A c \in Calls :
        /\ HasReturned(c)
        /\ call[c].language \in Matching
        /\ call[c].code = EchoProgram
        /\ call[c].input_data.is_str
        /\ call[c].exc = "none"
        => /\ call[c].result.status = "Accepted"
           /\ call[c].result.output = Strip(call[c].input_data.text)

\* the same for the languages whose run command is not replaced
C6_EchoAcceptedNoShell ==
    \A c \in Calls :
        /\ HasReturned(c)
        /\ call[c].language \in Matching \ {"javascript"}
        /\ call[c].code = EchoProgram
        /\ call[c].input_data.is_str
        /\ call[c].exc = "none"
        => /\ call[c].result.status = "Accepted"
           /\ call[c].result.output = Strip(call[c].input_data.text)

\* C7: when communicate's wait ends by the timeout, the outcome is Time Limit
\* Exceeded, its runtime is the limit that bounded the wait (the profile's
\* time_limit), and it has no output and no error.
C7_TimeLimitExceeded ==
    \A c \in Calls :
        /\ call[c].pc \in {"finally", "returned"}
        /\ call[c].process # "none"
        /\ call[c].exc = "none"
        /\ ~(call[c].beh.halts /\ call[c].beh.dur <= ProfileLimit(call[c].language))
        => /\ call[c].process = "killed"
           /\ DOMAIN call[c].result = {"status", "runtime"}
           /\ call[c].result.status = "Time Limit Exceeded"
           /\ call[c].result.runtime = ProfileLimit(call[c].language)

C7_Witness ==
    \E c \in Calls :
        /\ HasReturned(c)
        /\ call[c].language = "cpp"
        /\ call[c].beh.halts /\ call[c].beh.dur > ProfileLimit("cpp")
        /\ call[c].result.status = "Time Limit Exceeded"
        /\ call[c].result.runtime # call[c].time_limit

\* C8: when execute_code returns, no child process the call spawned is still
\* running.
C8_NoChildSurvives ==
    \A c \in Calls :
        HasReturned(c) => call[c].compile_proc # "running" /\ call[c].process # "running"

\* what holds of the code: no child is left running by a call that returns
\* anything but an Evaluation Error
C8_NoChildSurvivesClassified ==
    \A c \in Calls :
        HasReturned(c) /\ call[c].result.status # "Evaluation Error" =>
            call[c].compile_proc # "running" /\ call[c].process # "running"

\* C9: every call of execute_code that was entered ends, by a return or by an
\* exception, also when the submitted program or the compiler never terminates.
C9_CallEnds ==
    \A c \in Calls : (call[c].pc # "idle") ~> (call[c].pc \in {"returned", "raised"})

C9_Witness ==
    \E c \in Calls :
        /\ HasReturned(c)
        /\ ~call[c].beh.halts
        /\ call[c].process = "killed"

\* C10: when the run process exits non-zero within the limit, the outcome is
\* Runtime Error with the stdout the process wrote, untrimmed, the stderr it
\* wrote, and the measured runtime.
C10_RuntimeError ==
    \A c \in Calls :
        /\ call[c].pc \in {"finally", "returned"}
        /\ call[c].process = "exited"
        /\ call[c].beh.exit # 0
        => /\ call[c].result.status = "Runtime Error"
           /\ call[c].result.output =
                 (IF call[c].beh.echo /\ call[c].language # "javascript"
                  THEN call[c].input_data.text ELSE << >>)
           /\ call[c].result.error = <<"e">>
           /\ call[c].result.runtime = call[c].beh.dur
           /\ call[c].beh.dur <= ProfileLimit(call[c].language)

C10_Witness ==
    \E c \in Calls :
        /\ HasReturned(c)
        /\ call[c].result.status = "Runtime Error"
        /\ call[c].result.output = <<"h", "\n">>
        /\ call[c].result.runtime = 3

\* what the run process of call c wrote to its stdout before it exited
Captured(c) ==
    IF call[c].beh.echo /\ call[c].language # "javascript"
    THEN call[c].input_data.text ELSE << >>

\* C11: the outcome is Accepted exactly when the run process exited with
\* code zero within the limit that bounded the wait; the Accepted outcome
\* carries the captured stdout with the surrounding whitespace trimmed and the
\* measured runtime.  Nothing but the run of the process decides the status.
C11_AcceptedIffExitZero ==
    \A c \in Calls :
        call[c].pc \in {"finally", "returned"} =>
            /\ call[c].result.status = "Accepted" <=>
                  (call[c].process = "exited" /\ call[c].beh.exit = 0)
            /\ ( /\ call[c].process # "none"
                 /\ call[c].exc = "none"
                 /\ call[c].beh.exit = 0
                 /\ call[c].beh.halts
                 /\ call[c].beh.dur <= ProfileLimit(call[c].language) )
               => call[c].result.status = "Accepted"
            /\ call[c].result.status = "Accepted" =>
                  /\ call[c].beh.halts
                  /\ call[c].beh.dur <= ProfileLimit(call[c].language)
                  /\ call[c].result.runtime = call[c].beh.dur
                  /\ call[c].result.output \in {<< >>, <<"h">>}
                  /\ Captured(c) = <<"h", "\n">> => call[c].result.output = <<"h">>
                  /\ Captured(c) = <<" ", "h">> => call[c].result.output = <<"h">>
                  /\ Captured(c) = << >> => call[c].result.output = << >>

C11_Witness ==
    \E c \in Calls :
        /\ HasReturned(c)
        /\ call[c].language = "cpp"
        /\ call[c].input_data.text = <<"h", "\n">>
        /\ call[c].result.status = "Accepted"
        /\ call[c].result.output = <<"h">>
        /\ call[c].result.runtime = 3

\* C13: every outcome has a runtime field; it is zero whenever the run process
\* was never spawned (Compilation Error, Evaluation Error raised before the
\* spawn); an outcome has an output field only when the run process ran to
\* its exit.
C13_RuntimeAndOutputFields ==
    \A c \in Calls :
        call[c].pc \in {"finally", "returned"} =>
            /\ "runtime" \in DOMAIN call[c].result
            /\ call[c].process = "none" => call[c].result.runtime = 0
            /\ call[c].result.status \in {"Compilation Error", "Evaluation Error"} =>
                  call[c].result.runtime = 0
            /\ "output" \in DOMAIN call[c].result => call[c].process = "exited"

C13_Witness ==
    \E c \in Calls :
        /\ HasReturned(c)
        /\ call[c].result.status = "Compilation Error"
        /\ call[c].process = "none"
        /\ call[c].result.runtime = 0
        /\ "output" \notin DOMAIN call[c].result

\* the profile of the language has a compile step
Compiled(language) == language \in {"Java", "cpp"}

\* C15 as stated: within one call the compile process has exited (or the
\* language has no compile step) before the run process is spawned, and the
\* run process has exited or has been killed before the workspace is removed.
C15_StepsOrdered ==
    \A c \in Calls :
        /\ call[c].process # "none" =>
              IF Compiled(call[c].language)
              THEN call[c].compile_proc = "exited"
              ELSE call[c].compile_proc = "none"
        /\ call[c].rmtree # "not called" => call[c].process # "running"

\* the first half of C15, which holds of the code
C15_CompileBeforeRun ==
    \A c \in Calls :
        call[c].process # "none" =>
            IF Compiled(call[c].language)
            THEN call[c].compile_proc = "exited"
            ELSE call[c].compile_proc = "none"

\* C16 as stated: with a supported language, every exception of steps 1-5,
\* the allocation of the workspace included, is caught: none propagates.
C16_AllCaught ==
    \A c \in Calls : call[c].language \in Matching => call[c].pc # "raised"

\* C16 as amended: every exception raised in steps 2-5 (writing the files,
\* compiling, spawning the run process, waiting for it) that is not classified
\* otherwise is caught and returned as an Evaluation Error outcome with
\* str(e) as its message and runtime 0; an exception of step 1 (allocating
\* the workspace) propagates to the caller.
C16_CaughtInsideTry ==
    \A c \in Calls :
        /\ call[c].exc # "none" =>
              /\ call[c].temp_dir # 0
              /\ call[c].pc \in {"except", "finally", "returned"}
              /\ call[c].raised = "none"
        /\ call[c].exc # "none" /\ call[c].pc \in {"finally", "returned"} =>
              /\ DOMAIN call[c].result = {"status", "error", "runtime"}
              /\ call[c].result.status = "Evaluation Error"
              /\ call[c].result.error = call[c].exc
              /\ call[c].result.runtime = 0
        /\ call[c].pc = "raised" => call[c].temp_dir = 0 /\ call[c].exc = "none"

C16_Witness ==
    \E c \in Calls :
        /\ HasReturned(c)
        /\ call[c].process = "running"
        /\ call[c].exc = "AttributeError"
        /\ call[c].result.status = "Evaluation Error"
        /\ call[c].result.error = "AttributeError"

\* C17: when the compile process has not finished within the profile's
\* time_limit, it is killed, the call returns Evaluation Error with runtime 0
\* (neither Compilation Error nor Time Limit Exceeded), and no run process is
\* spawned.
C17_CompileTimeout ==
    \A c \in Calls :
        /\ call[c].code.compile = "hang" /\ call[c].compiles > 0
              /\ call[c].pc # "compile_wait" => call[c].compile_proc = "killed"
        /\ call[c].compile_proc = "killed" =>
              /\ call[c].process = "none" /\ call[c].runs = 0
              /\ call[c].pc \in {"except", "finally", "returned"}
              /\ call[c].pc # "except" =>
                    /\ call[c].result.status = "Evaluation Error"
                    /\ call[c].result.runtime = 0

C17_Witness ==
    \E c \in Calls :
        /\ HasReturned(c)
        /\ call[c].language = "Java"
        /\ call[c].compile_proc = "killed"
        /\ call[c].result = [status |-> "Evaluation Error", error |-> "TimeoutExpired",
                             runtime |-> 0]

\* C18 as stated: a call with a supported language creates exactly one
\* workspace directory and destroys it, spawns at most one compile process and
\* at most one run process, and spawns a run process only if there is no
\* compile step or the compile process exited zero.
C18_OneDirTwoChildren ==
    \A c \in Calls :
        /\ call[c].mkdtemps <= 1 /\ call[c].compiles <= 1 /\ call[c].runs <= 1
        /\ HasReturned(c) => call[c].mkdtemps = 1 /\ call[c].temp_dir \notin tmp
        /\ call[c].runs = 1 =>
              \/ ~Compiled(call[c].language) /\ call[c].compiles = 0
              \/ call[c].compile_proc = "exited" /\ call[c].code.compile = "ok"

\* C18 as amended: a call with a supported language creates at most one
\* workspace directory, and a call that returns has created exactly one and
\* has called shutil.rmtree on it exactly once (the directory is destroyed
\* unless that removal fails); it spawns at most one compile process and at
\* most one run process, and spawns a run process only if there is no compile
\* step or the compile process exited zero.
C18_OneDirOneRemoval ==
    \A c \in Calls :
        /\ call[c].mkdtemps <= 1 /\ call[c].compiles <= 1 /\ call[c].runs <= 1
        /\ call[c].rmtrees <= call[c].mkdtemps
        /\ HasReturned(c) =>
              /\ call[c].mkdtemps = 1 /\ call[c].rmtrees = 1
              /\ call[c].rmtree = "removed" => call[c].temp_dir \notin tmp
        /\ ~Compiled(call[c].language) => call[c].compiles = 0
        /\ call[c].runs = 1 =>
              \/ ~Compiled(call[c].language) /\ call[c].compiles = 0
              \/ call[c].compile_proc = "exited" /\ call[c].code.compile = "ok"

C18_Witness ==
    \E c \in Calls :
        /\ HasReturned(c)
        /\ call[c].mkdtemps = 1 /\ call[c].compiles = 1 /\ call[c].runs = 1
        /\ call[c].rmtrees = 1 /\ call[c].temp_dir \notin tmp

\* call c is between the creation of its workspace and its removal
Inside(c) ==
    call[c].pc \in {"write", "compile", "compile_wait", "popen", "communicate",
                    "except", "finally"}

\* the outcome of each request of ConcRequests when it runs alone and no file
\* operation or spawn fails
ExpectedAlone(r) ==
    CASE r.language = "python" /\ r.input_data.is_str ->
            [status |-> "Accepted", output |-> <<"h">>, runtime |-> 1]
      [] r.language = "cpp" ->
            [status |-> "Time Limit Exceeded", runtime |-> 6]
      [] r.language = "Java" ->
            [status |-> "Evaluation Error", error |-> "TimeoutExpired", runtime |-> 0]
      [] r.language = "python" /\ ~r.input_data.is_str ->
            [status |-> "Evaluation Error", error |-> "AttributeError", runtime |-> 0]

\* a call that runs alone returns the outcome of ExpectedAlone
C12_AloneOutcome ==
    \A c \in Calls :
        HasReturned(c) /\ Request(c) \in ConcRequests /\ call[c].exc # "OSError" =>
            call[c].result = ExpectedAlone(Request(c))

\* C12: two calls that run concurrently never use the same workspace
\* directory, and under every interleaving of their steps each call returns
\* the outcome it returns when it runs alone: the outcome its own source,
\* language and stdin decide (unless one of its own file operations or spawns
\* failed).
C12_NoInterference ==
    /\ \A c, d \in Calls :
          c # d /\ Inside(c) /\ Inside(d) => call[c].temp_dir # call[d].temp_dir
    /\ \A c \in Calls :
          HasReturned(c) /\ call[c].exc # "OSError" =>
              call[c].result = ExpectedAlone(Request(c))

C12_Witness ==
    \E c, d \in Calls :
        /\ c # d
        /\ call[c].language = "python" /\ call[d].language = "python"
        /\ call[c].input_data # call[d].input_data
        /\ call[c].pc = "communicate" /\ call[d].pc = "communicate"
        /\ call[c].temp_dir # call[d].temp_dir

\* C14: two calls with identical (source, language, stdin, time_limit), one
\* after the other or interleaved, return outcomes with the same status and
\* the same stdout (unless a file operation or a spawn of one of them failed);
\* and a call leaves nothing behind that a later call reads: once every call
\* has ended and no removal failed, no workspace directory exists.
C14_Idempotent ==
    /\ \A c, d \in Calls :
          /\ HasReturned(c) /\ HasReturned(d)
          /\ Request(c) = Request(d)
          /\ call[c].exc # "OSError" /\ call[d].exc # "OSError"
          => /\ call[c].result.status = call[d].result.status
             /\ DOMAIN call[c].result = DOMAIN call[d].result
             /\ "output" \in DOMAIN call[c].result =>
                   call[c].result.output = call[d].result.output
    /\ ( \A c \in Calls :
            call[c].pc \in {"idle", "returned", "raised"} /\ call[c].rmtree # "failed" )
       => tmp = {}

C14_Witness ==
    \E c, d \in Calls :
        /\ c # d
        /\ HasReturned(c) /\ call[d].pc = "lookup"
        /\ Request(c) = Request(d)
        /\ call[c].result.status = "Accepted"

\* the test cases of the submission and the test results recorded so far
NumTests == Len(sub.problem.test_cases)
NumResults == Len(sub.test_results)

\* C19: a submission to a problem with N test cases performs exactly N calls
\* of execute_code, one at a time and in test-case order (a call starts only
\* after the previous one returned or raised), and records exactly N test
\* results in that order; a failing test case does not stop or skip the
\* later ones.
C19_OneCallPerTestCase ==
    /\ NumResults <= NumTests
    /\ sub.calls = NumResults + (IF sub.pc = "waiting" THEN 1 ELSE 0)
    /\ \A c \in Calls : call[c].pc # "idle" <=> c <= sub.calls
    /\ \A c, d \in Calls :
          c < d /\ call[d].pc # "idle" => call[c].pc \in {"returned", "raised"}
    /\ \A i \in 1..sub.calls :
          call[i].input_data = sub.problem.test_cases[i].input
    /\ \A i \in 1..NumResults :
          /\ sub.test_results[i].input = sub.problem.test_cases[i].input
          /\ sub.test_results[i].expected = sub.problem.test_cases[i].output
          /\ call[i].pc = "returned" =>
                sub.test_results[i].status = call[i].result.status
          /\ call[i].pc = "raised" =>
                sub.test_results[i].status = "Evaluation Error"
    /\ sub.final_status # "None" => sub.calls = NumTests /\ NumResults = NumTests

C19_Witness ==
    /\ sub.pc = "done"
    /\ sub.response = 200
    /\ NumTests = 2
    /\ NumResults = 2
    /\ sub.test_results[1].status = "Evaluation Error"
    /\ sub.test_results[2].status = "Accepted"

\* call i returned Accepted with the stdout its test case expects
Passes(i) ==
    /\ call[i].pc = "returned"
    /\ call[i].result.status = "Accepted"
    /\ call[i].result.output = sub.problem.test_cases[i].output

\* C20: the final status of a submission is 'Accepted' exactly when every
\* test case's call returned status Accepted with a stdout equal to the test
\* case's expected output, and 'Rejected' otherwise (also when execute_code
\* raised for a test case); the user's points and the problem's solved_count
\* change only when the final status is 'Accepted'.
C20_FinalStatus ==
    /\ sub.final_status # "None" =>
          /\ sub.final_status \in {"Accepted", "Rejected"}
          /\ sub.final_status = "Accepted" <=> \A i \in 1..NumTests : Passes(i)
    /\ db.status \in {"Accepted", "Rejected"} => db.status = sub.final_status
    /\ <<db.total_points, db.solved_problems, db.solved_count>> \notin
           { <<d.total_points, d.solved_problems, d.solved_count>> :
                d \in {EmptyDb, SolvedDb} }
       => sub.final_status = "Accepted"

\* no step but the end of an accepted submission writes the statistics
C20_StatisticsSteps ==
    [][ db'.total_points # db.total_points
        \/ db'.solved_problems # db.solved_problems
        \/ db'.solved_count # db.solved_count
        => sub'.final_status = "Accepted" ]_vars

C20_Witness ==
    /\ sub.final_status = "Accepted"
    /\ sub.response = 200
    /\ NumTests = 2
    /\ db.status = "Accepted"
    /\ db.total_points = 10
    /\ db.solved_problems = <<ProblemId>>
    /\ db.solved_count = 1

\* a submission whose program prints the expected text but for leading
\* white space is rejected
C20_WitnessRejected ==
    /\ sub.final_status = "Rejected"
    /\ NumTests = 1
    /\ sub.test_results[1].status = "Accepted"
    /\ sub.test_results[1].actual # sub.test_results[1].expected

\* the users whose solved_problems holds problem p
Solvers(p) == {u \in UserIds : p \in Elements(users_col[u].solved_problems)}

\* C22: after any sequence of submit_problem_solution requests a user's
\* total_points is 10 times the number of distinct problems in the user's
\* solved_problems, and a problem's solved_count is the number of users who
\* solved it: an accepted re-submission changes neither.
C22_PointsMatchSolved ==
    /\ \A u \in UserIds :
          users_col[u].total_points =
              10 * Cardinality(Elements(users_col[u].solved_problems))
    /\ \A p \in ProblemIds :
          problems_col[p].solved_count = Cardinality(Solvers(p))

\* what the code keeps: solved_problems holds no problem twice, and the
\* points and counts are never below what the solved problems account for
C22_PointsAtLeastSolved ==
    /\ \A u \in UserIds :
          /\ Len(users_col[u].solved_problems) =
                Cardinality(Elements(users_col[u].solved_problems))
          /\ users_col[u].total_points >=
                10 * Cardinality(Elements(users_col[u].solved_problems))
    /\ \A p \in ProblemIds :
          problems_col[p].solved_count >= Cardinality(Solvers(p))

\* a user solved one problem twice
C22_Resubmitted ==
    \E u \in UserIds :
        /\ users_col[u].solved_problems = <<"p">>
        /\ users_col[u].total_points = 20
        /\ problems_col["p"].solved_count = 2

\* the instants at which submit_olympiad_solution accepts a submission to
\* olympiad o: neither now < start_time nor now > end_time
Window(o) ==
    {now \in Times : ~(now < olympiads_col[o].start_time)
                     /\ ~(now > olympiads_col[o].end_time)}

\* C23: after any sequence of create_olympiad and update_olympiad requests
\* every stored olympiad has start_time strictly before end_time, so its
\* submission window is never empty.
C23_WindowNeverEmpty ==
    \A o \in OlympiadIds :
        olympiads_col[o].stored =>
            /\ olympiads_col[o].start_time < olympiads_col[o].end_time
            /\ Window(o) # {}

\* what the code keeps: an olympiad is stored by create_olympiad with
\* start_time strictly before end_time
C23_CreatedWithWindow ==
    [][ \A o \in OlympiadIds :
           ~olympiads_col[o].stored /\ olympiads_col'[o].stored =>
               olympiads_col'[o].start_time < olympiads_col'[o].end_time ]_vars

\* an update left an olympiad that accepts no submission at any instant
C23_EmptyWindow ==
    \E o \in OlympiadIds :
        /\ olympiads_col[o].stored
        /\ olympiads_col[o].start_time > olympiads_col[o].end_time
        /\ Window(o) = {}

\* the sum of points_earned over the entries of a problems_solved list
RECURSIVE PointsEarned(_)
PointsEarned(list) ==
    IF list = << >> THEN 0 ELSE Head(list).points_earned + PointsEarned(Tail(list))

\* the entries of user u's problems_solved that name problem p
Credits(u, p) ==
    {i \in DOMAIN olympiad_participants_col[u].problems_solved :
        olympiad_participants_col[u].problems_solved[i].problem_id = p}

\* C21: after any interleaving of submit_olympiad_solution requests, also of
\* two concurrent requests of one user for one problem, the participant's
\* problems_solved holds each problem_id at most once and total_points is the
\* sum of the points_earned of its entries.
C21_CreditedOnce ==
    \A u \in UserIds :
        /\ \A p \in ProblemIds : Cardinality(Credits(u, p)) <= 1
        /\ olympiad_participants_col[u].total_points =
              PointsEarned(olympiad_participants_col[u].problems_solved)

\* what the code keeps: total_points is the sum of the entries' points_earned
C21_PointsAreEntries ==
    \A u \in UserIds :
        olympiad_participants_col[u].total_points =
            PointsEarned(olympiad_participants_col[u].problems_solved)

\* what the code keeps: a request that comes in after the problem was
\* credited is refused
C21_RefusedOnceCredited ==
    [][ \A t \in Threads :
           request[t].pc = "idle" /\ request'[t].pc = "judging" =>
               Credits(request'[t].user, request'[t].problem_id) = {} ]_vars

\* a participant credited twice for one problem
C21_CreditedTwice ==
    \E u \in UserIds :
        /\ Cardinality(Credits(u, "p")) = 2
        /\ olympiad_participants_col[u].total_points = 200

====
